---- MODULE Spec2Model ----
(***************************************************************************)
(* Fuzzy point-cloud downsampling (src/main.py).                           *)
(*                                                                         *)
(* Arithmetic.  The script computes with Python floats; the model computes *)
(* with exact rationals on a grid.  A position (a crisp input, a triangle  *)
(* vertex, a defuzzification abscissa) is an integer number of 1/Scale     *)
(* units.  A membership degree computed by a membership function mf is the *)
(* integer numerator of a fraction whose denominator is mf.slope.den, so   *)
(* that degree 1 is mf.slope.den.  All 13 label functions have the same    *)
(* slope 1/(0.25), hence the same denominator One, and their degrees and   *)
(* the firing strengths are directly comparable integers.                  *)
(***************************************************************************)
EXTENDS Integers, Sequences, FiniteSets

\* grid resolution: Scale = 20 * Res positions per unit, i.e. step 0.05 / Res
Res == 2
\* how many quarter units the inputs range beyond the label domain [-0.25, 1.25]
Margin == 1
\* largest input cloud of the multi-point specification
MaxPoints == 2

Scale == 20 * Res

\* the decimal literal h/100 as a position (every literal of the script is a
\* multiple of 0.05, so the division is exact)
Dec(h) == (h * Scale) \div 100

\* a threshold of 0.5
IMPORTANCE_THRESHOLD_half == Dec(50)

IMPORTANCE_THRESHOLD == Dec(80)

Max2(p, q) == IF p >= q THEN p ELSE q
Max3(p, q, r) == Max2(p, Max2(q, r))
Min2(p, q) == IF p <= q THEN p ELSE q

\* Python truthiness of a number, as in "if dense.fuzzify(x_density):"
Truthy(y) == y # 0

(***************************************************************************)
(* class TriangularMembershipFunction                                      *)
(***************************************************************************)

\* __init__: the assertion passes and 1/(b-a) does not divide by zero
InitAsserts(a, b, c) == a <= b /\ b <= c
InitDivides(a, b, c) == b - a # 0

\* the constructed object; slope = 1/(b-a) is kept as the fraction num/den
TriangularMembershipFunction(a, b, c) ==
    [a |-> a, b |-> b, c |-> c, slope |-> [num |-> 1, den |-> b - a]]

\* y = slope * (x - b) + 1, as a numerator over slope.den
y_left(mf, x) == mf.slope.num * (x - mf.b) + mf.slope.den

\* y = -slope * (x - b) + 1, as a numerator over slope.den
y_right(mf, x) == (0 - mf.slope.num) * (x - mf.b) + mf.slope.den

fuzzify(mf, x) ==
    IF x < mf.a \/ x > mf.c THEN 0
    ELSE IF x < mf.b THEN y_left(mf, x)
    ELSE y_right(mf, x)

\* the assertion of alpha_cut: 0 <= y <= 1, y a numerator over slope.den
AlphaCutAsserts(mf, y) == y >= 0 /\ y <= mf.slope.den

\* (y - 1) / slope = ((y - den) / den) * (den / num) = (y - den) / num
alpha_cut(mf, y) ==
    LET x_left  == mf.b - ((y - mf.slope.den) \div mf.slope.num)
        x_right == mf.b + ((y - mf.slope.den) \div mf.slope.num)
    IN  <<x_left, x_right>>

(***************************************************************************)
(* The membership function tables                                          *)
(***************************************************************************)
empty == TriangularMembershipFunction(Dec(-25), Dec(0), Dec(25))
sparse == TriangularMembershipFunction(Dec(0), Dec(25), Dec(50))
uniform == TriangularMembershipFunction(Dec(25), Dec(50), Dec(75))
dense_shifted == TriangularMembershipFunction(Dec(25), Dec(50), Dec(75))
dense == TriangularMembershipFunction(Dec(50), Dec(75), Dec(100))
full == TriangularMembershipFunction(Dec(75), Dec(100), Dec(125))

very_close == TriangularMembershipFunction(Dec(-25), Dec(0), Dec(25))
close == TriangularMembershipFunction(Dec(0), Dec(25), Dec(50))
halfway == TriangularMembershipFunction(Dec(25), Dec(50), Dec(75))
far == TriangularMembershipFunction(Dec(50), Dec(75), Dec(100))
very_far == TriangularMembershipFunction(Dec(75), Dec(100), Dec(125))

superfluous == TriangularMembershipFunction(Dec(0), Dec(25), Dec(50))
important == TriangularMembershipFunction(Dec(25), Dec(50), Dec(75))
essential == TriangularMembershipFunction(Dec(50), Dec(75), Dec(100))

LabelFunctions ==
    {empty, sparse, uniform, dense, full,
     very_close, close, halfway, far, very_far,
     superfluous, important, essential}

\* degree 1 of every label function
One == Dec(25)

(***************************************************************************)
(* The rule base.  fs is the record of the three firing strengths and the  *)
(* lines printed so far.                                                   *)
(***************************************************************************)
ZeroStrengths ==
    [superfluous_firing_strength |-> 0,
     important_firing_strength |-> 0,
     essential_firing_strength |-> 0,
     printed |-> <<>>]

\* lines 104-123: rules 1 and 2, an if/elif pair that assigns directly
Rule12(fs, d, v) ==
    LET e  == fuzzify(empty, d)
        vc == fuzzify(very_close, v)
        cl == fuzzify(close, v)
        hw == fuzzify(halfway, v)
        fa == fuzzify(far, v)
        vf == fuzzify(very_far, v)
    IN  IF e > 0 /\ (vc > 0 \/ cl > 0 \/ hw > 0)
        THEN [fs EXCEPT !.essential_firing_strength = Min2(e, Max3(vc, cl, hw)),
                        !.printed = Append(@, "x is essential")]
        ELSE IF e > 0 /\ (Truthy(fa) \/ Truthy(vf))
        THEN [fs EXCEPT !.superfluous_firing_strength = Min2(e, Max2(fa, vf)),
                        !.printed = Append(@, "x is superfluous")]
        ELSE fs

\* lines 129-141: rule 3
Rule3(fs, density_membership, v) ==
    LET vc == fuzzify(very_close, v)
        cl == fuzzify(close, v)
        firing_strength == Min2(density_membership, Max2(vc, cl))
    IN  IF vc > 0 \/ cl > 0
        THEN [fs EXCEPT !.essential_firing_strength =
                            IF firing_strength > @ THEN firing_strength ELSE @,
                        !.printed = Append(@, "x is essential")]
        ELSE fs

\* lines 143-148: rule 4
Rule4(fs, density_membership, v) ==
    LET hw == fuzzify(halfway, v)
        firing_strength == Min2(density_membership, hw)
    IN  IF hw > 0
        THEN [fs EXCEPT !.important_firing_strength =
                            IF firing_strength > @ THEN firing_strength ELSE @,
                        !.printed = Append(@, "x is important")]
        ELSE fs

\* lines 150-158: rule 5
Rule5(fs, density_membership, v) ==
    LET fa == fuzzify(far, v)
        vf == fuzzify(very_far, v)
        firing_strength == Min2(density_membership, Max2(fa, vf))
    IN  IF fa > 0 \/ vf > 0
        THEN [fs EXCEPT !.superfluous_firing_strength =
                            IF firing_strength > @ THEN firing_strength ELSE @,
                        !.printed = Append(@, "x is superfluous")]
        ELSE fs

\* lines 125-158: rules 3, 4 and 5 under one density condition
Rule345(fs, d, v) ==
    LET sp == fuzzify(sparse, d)
        un == fuzzify(uniform, d)
        density_membership == Max2(sp, un)
    IN  IF sp > 0 \/ un > 0
        THEN Rule5(Rule4(Rule3(fs, density_membership, v),
                         density_membership, v),
                   density_membership, v)
        ELSE fs

\* the rule 6/7 block without the else branch of rule 7
Rule67_noElse(fs, d, v) ==
    LET density_membership == fuzzify(dense, d)
        vc == fuzzify(very_close, v)
        cl == fuzzify(close, v)
        firing_strength == Min2(density_membership, Max2(vc, cl))
    IN  IF Truthy(density_membership) /\ (Truthy(vc) \/ Truthy(cl))
        THEN [fs EXCEPT !.important_firing_strength =
                            IF firing_strength > @ THEN firing_strength ELSE @,
                        !.printed = Append(@, "x is important")]
        ELSE fs

\* lines 160-177: rules 6 and 7
Rule67(fs, d, v) ==
    LET density_membership == fuzzify(dense, d)
        vc == fuzzify(very_close, v)
        cl == fuzzify(close, v)
    IN  IF Truthy(density_membership)
        THEN IF Truthy(vc) \/ Truthy(cl)
             THEN LET firing_strength == Min2(density_membership, Max2(vc, cl))
                  IN  [fs EXCEPT !.important_firing_strength =
                                     IF firing_strength > @ THEN firing_strength ELSE @,
                                 !.printed = Append(@, "x is important")]
             ELSE LET firing_strength == density_membership
                  IN  [fs EXCEPT !.superfluous_firing_strength =
                                     IF firing_strength > @ THEN firing_strength ELSE @,
                                 !.printed = Append(@, "x is superfluous")]
        ELSE fs

\* rule 8 looking at the density only
Rule8_fullOnly(fs, d, v) ==
    LET fu == fuzzify(full, d)
    IN  IF Truthy(fu)
        THEN [fs EXCEPT !.superfluous_firing_strength = IF fu > @ THEN fu ELSE @,
                        !.printed = Append(@, "x is superfluous")]
        ELSE fs

\* lines 179-183: rule 8
Rule8(fs, d, v) ==
    LET fu == fuzzify(full, d)
        fa == fuzzify(far, v)
        vf == fuzzify(very_far, v)
        firing_strength == Max3(fu, fa, vf)
    IN  IF Truthy(fu) \/ Truthy(fa) \/ Truthy(vf)
        THEN [fs EXCEPT !.superfluous_firing_strength =
                            IF firing_strength > @ THEN firing_strength ELSE @,
                        !.printed = Append(@, "x is superfluous")]
        ELSE fs

Blocks == {"rule12", "rule345", "rule67", "rule8"}

\* the order in which the script evaluates its rule blocks
ScriptOrder == <<"rule12", "rule345", "rule67", "rule8">>

ApplyBlock(blk, fs, d, v) ==
    CASE blk = "rule12"  -> Rule12(fs, d, v)
      [] blk = "rule345" -> Rule345(fs, d, v)
      [] blk = "rule67"  -> Rule67(fs, d, v)
      [] blk = "rule8"   -> Rule8(fs, d, v)

RECURSIVE RunBlocks(_, _, _, _)
RunBlocks(ord, fs, d, v) ==
    IF ord = <<>> THEN fs
    ELSE RunBlocks(Tail(ord), ApplyBlock(Head(ord), fs, d, v), d, v)

(***************************************************************************)
(* Defuzzification                                                         *)
(***************************************************************************)

\* the sample table with the essential strength repeated at x = 1.00
points_tail(s, i, e) ==
    << <<Dec(0), 0>>, <<Dec(15), s>>, <<Dec(30), Max2(s, i)>>,
       <<Dec(45), Max2(s, i)>>, <<Dec(60), Max2(i, e)>>, <<Dec(60), Max2(i, e)>>,
       <<Dec(75), e>>, <<Dec(100), e>> >>

\* the sample table without the repeated sample at x = 0.60
points_single(s, i, e) ==
    << <<Dec(0), 0>>, <<Dec(15), s>>, <<Dec(30), Max2(s, i)>>,
       <<Dec(45), Max2(s, i)>>, <<Dec(60), Max2(i, e)>>,
       <<Dec(75), e>>, <<Dec(100), 0>> >>

\* lines 188-200: the 8 samples (abscissa, ordinate)
points(s, i, e) ==
    << <<Dec(0), 0>>, <<Dec(15), s>>, <<Dec(30), Max2(s, i)>>,
       <<Dec(45), Max2(s, i)>>, <<Dec(60), Max2(i, e)>>, <<Dec(60), Max2(i, e)>>,
       <<Dec(75), e>>, <<Dec(100), 0>> >>

RECURSIVE np_dot(_)
\* np.dot(points[:, 0], points[:, 1])
np_dot(pts) == IF pts = <<>> THEN 0 ELSE Head(pts)[1] * Head(pts)[2] + np_dot(Tail(pts))

RECURSIVE np_sum(_)
\* np.sum(points[:, 1])
np_sum(pts) == IF pts = <<>> THEN 0 ELSE Head(pts)[2] + np_sum(Tail(pts))

\* line 203: the quotient of two float64 scalars, kept as the fraction
\* num/den of a position; 0.0/0.0 is nan (numpy warns and does not raise)
Defuzz(fs) ==
    LET pts == points(fs.superfluous_firing_strength,
                      fs.important_firing_strength,
                      fs.essential_firing_strength)
    IN  [num |-> np_dot(pts), den |-> np_sum(pts)]

IsNaN(q) == q.den = 0

\* q > t for a float quotient q and a position t; every comparison with nan
\* is False
Gt(q, t) == ~IsNaN(q) /\ IF q.den > 0 THEN q.num > t * q.den ELSE q.num < t * q.den

\* line 205: np.where of a scalar condition is ([0],) when it is true and
\* ([],) when it is false, and the cloud is indexed with it
Downsampled(cloud, q) ==
    LET idx == IF Gt(q, IMPORTANCE_THRESHOLD) THEN <<1>> ELSE <<>>
    IN  [k \in 1..Len(idx) |-> cloud[idx[k]]]

(***************************************************************************)
(* State                                                                   *)
(***************************************************************************)
VARIABLES
    input_cloud,                  \* the points, each with its density and distance
    x_density,                    \* the density value of the scored point
    x_distance,                   \* the distance value of the scored point
    order,                        \* the order in which the rule blocks run
    step,                         \* 1..4: rule blocks, 5: defuzzification,
                                  \* 6: downsampling, 7: end of the script
    superfluous_firing_strength,
    important_firing_strength,
    essential_firing_strength,
    printed,                      \* the lines printed so far
    defuzzified_importance,       \* fraction num/den, meaningful once step >= 6
    downsampled_point_cloud,      \* meaningful once step = 7
    tmf,                          \* a TriangularMembershipFunction object
    mf_call,                      \* the last method call on tmf and what it returned
    raised                        \* the exception of the last constructor or call

vars == <<input_cloud, x_density, x_distance, order, step,
          superfluous_firing_strength, important_firing_strength,
          essential_firing_strength, printed, defuzzified_importance,
          downsampled_point_cloud, tmf, mf_call, raised>>

scriptVars == <<input_cloud, x_density, x_distance, order, step,
                superfluous_firing_strength, important_firing_strength,
                essential_firing_strength, printed, defuzzified_importance,
                downsampled_point_cloud>>

mfVars == <<tmf, mf_call, raised>>

\* crisp inputs: every grid position of [-0.25 - Margin/4, 1.25 + Margin/4]
Grid == Dec(-25 - 25 * Margin) .. Dec(125 + 25 * Margin)

\* the feet and peaks of the density and distance labels
LabelVertices == {Dec(-25), Dec(0), Dec(25), Dec(50), Dec(75), Dec(100), Dec(125)}

Point(d, v) == [density |-> d, distance |-> v]

\* the permutations of the four rule blocks
Orders ==
    {o \in [1..4 -> Blocks] : \A i, j \in 1..4 : i # j => o[i] # o[j]}

\* the firing strengths as one record
Strengths ==
    [superfluous_firing_strength |-> superfluous_firing_strength,
     important_firing_strength |-> important_firing_strength,
     essential_firing_strength |-> essential_firing_strength,
     printed |-> printed]

\* lines 98-100 and the names not yet bound
ScriptStart ==
    /\ step = 1
    /\ superfluous_firing_strength = 0
    /\ important_firing_strength = 0
    /\ essential_firing_strength = 0
    /\ printed = <<>>
    /\ defuzzified_importance = [num |-> 0, den |-> 0]
    /\ downsampled_point_cloud = <<>>

MFStart ==
    /\ tmf \in LabelFunctions
    /\ mf_call = [op |-> "none", arg |-> 0, ret |-> <<>>]
    /\ raised = "none"

\* one point, anywhere on the grid, scored in script order
Init ==
    /\ x_density \in Grid
    /\ x_distance \in Grid
    /\ input_cloud = <<Point(x_density, x_distance)>>
    /\ order = ScriptOrder
    /\ ScriptStart
    /\ MFStart
    /\ tmf = empty

\* a cloud of up to MaxPoints points on the label vertices, one of them scored
InitCloud ==
    /\ \E n \in 1..MaxPoints :
          input_cloud \in [1..n -> {Point(d, v) : d \in LabelVertices, v \in LabelVertices}]
    /\ \E k \in 1..Len(input_cloud) :
          /\ x_density = input_cloud[k].density
          /\ x_distance = input_cloud[k].distance
    /\ order = ScriptOrder
    /\ ScriptStart
    /\ MFStart
    /\ tmf = empty

\* one point, anywhere on the grid, the rule blocks in any order
InitPerm ==
    /\ x_density \in Grid
    /\ x_distance \in Grid
    /\ input_cloud = <<Point(x_density, x_distance)>>
    /\ order \in Orders
    /\ ScriptStart
    /\ MFStart
    /\ tmf = empty

\* the membership functions alone
InitMF ==
    /\ x_density = 0
    /\ x_distance = 0
    /\ input_cloud = <<Point(0, 0)>>
    /\ order = ScriptOrder
    /\ ScriptStart
    /\ MFStart

(***************************************************************************)
(* The script, one action per rule block and per later statement           *)
(***************************************************************************)
SetStrengths(fs) ==
    /\ superfluous_firing_strength' = fs.superfluous_firing_strength
    /\ important_firing_strength' = fs.important_firing_strength
    /\ essential_firing_strength' = fs.essential_firing_strength
    /\ printed' = fs.printed

RunBlock(blk, fs) ==
    /\ step \in 1..4
    /\ order[step] = blk
    /\ SetStrengths(fs)
    /\ step' = step + 1
    /\ UNCHANGED <<input_cloud, x_density, x_distance, order,
                   defuzzified_importance, downsampled_point_cloud>>
    /\ UNCHANGED mfVars

Rule12Step == RunBlock("rule12", Rule12(Strengths, x_density, x_distance))

Rule345Step == RunBlock("rule345", Rule345(Strengths, x_density, x_distance))

Rule67Step == RunBlock("rule67", Rule67(Strengths, x_density, x_distance))

Rule8Step == RunBlock("rule8", Rule8(Strengths, x_density, x_distance))

Defuzzify ==
    /\ step = 5
    /\ defuzzified_importance' = Defuzz(Strengths)
    /\ step' = 6
    /\ UNCHANGED <<input_cloud, x_density, x_distance, order,
                   superfluous_firing_strength, important_firing_strength,
                   essential_firing_strength, printed, downsampled_point_cloud>>
    /\ UNCHANGED mfVars

Downsample ==
    /\ step = 6
    /\ downsampled_point_cloud' = Downsampled(input_cloud, defuzzified_importance)
    /\ step' = 7
    /\ UNCHANGED <<input_cloud, x_density, x_distance, order,
                   superfluous_firing_strength, important_firing_strength,
                   essential_firing_strength, printed, defuzzified_importance>>
    /\ UNCHANGED mfVars

Next ==
    \/ Rule12Step
    \/ Rule345Step
    \/ Rule67Step
    \/ Rule8Step
    \/ Defuzzify
    \/ Downsample

Spec == Init /\ [][Next]_vars

SpecCloud == InitCloud /\ [][Next]_vars

SpecPerm == InitPerm /\ [][Next]_vars

(***************************************************************************)
(* The membership function object: construction and its two methods        *)
(***************************************************************************)
Construct ==
    \E a \in LabelVertices, b \in LabelVertices, c \in LabelVertices :
        /\ IF ~InitAsserts(a, b, c)
           THEN raised' = "AssertionError" /\ UNCHANGED tmf
           ELSE IF ~InitDivides(a, b, c)
           THEN raised' = "ZeroDivisionError" /\ UNCHANGED tmf
           ELSE raised' = "none" /\ tmf' = TriangularMembershipFunction(a, b, c)
        /\ mf_call' = [op |-> "init", arg |-> 0, ret |-> <<>>]
        /\ UNCHANGED scriptVars

Fuzzify ==
    \E x \in Grid :
        /\ mf_call' = [op |-> "fuzzify", arg |-> x, ret |-> <<fuzzify(tmf, x)>>]
        /\ raised' = "none"
        /\ UNCHANGED tmf
        /\ UNCHANGED scriptVars

AlphaCut ==
    \E y \in -1 .. tmf.slope.den + 1 :
        /\ IF AlphaCutAsserts(tmf, y)
           THEN /\ mf_call' = [op |-> "alpha_cut", arg |-> y, ret |-> alpha_cut(tmf, y)]
                /\ raised' = "none"
           ELSE /\ mf_call' = [op |-> "alpha_cut", arg |-> y, ret |-> <<>>]
                /\ raised' = "AssertionError"
        /\ UNCHANGED tmf
        /\ UNCHANGED scriptVars

NextMF ==
    \/ Construct
    \/ Fuzzify
    \/ AlphaCut

SpecMF == InitMF /\ [][NextMF]_vars

(***************************************************************************)
(* Definitions shared by the properties                                    *)
(***************************************************************************)
AllZero ==
    /\ superfluous_firing_strength = 0
    /\ important_firing_strength = 0
    /\ essential_firing_strength = 0

\* the float quotient q equals the decimal h/100
EqDec(q, h) == ~IsNaN(q) /\ q.num = Dec(h) * q.den

\* what the script computes for a point with density d and distance v
Importance(d, v) == Defuzz(RunBlocks(ScriptOrder, ZeroStrengths, d, v))

Retained(p) == Gt(Importance(p.density, p.distance), IMPORTANCE_THRESHOLD)

\* lines 160, 164 and 173: the else branch of the rule 6/7 block is taken
Rule7Fires(d, v) ==
    /\ Truthy(fuzzify(dense, d))
    /\ ~(Truthy(fuzzify(very_close, v)) \/ Truthy(fuzzify(close, v)))

\* the firing-strength formulas of the rule table
T1(d, v) == Min2(fuzzify(empty, d),
                 Max3(fuzzify(very_close, v), fuzzify(close, v), fuzzify(halfway, v)))
T2(d, v) == Min2(fuzzify(empty, d), Max2(fuzzify(far, v), fuzzify(very_far, v)))
T3(d, v) == Min2(Max2(fuzzify(sparse, d), fuzzify(uniform, d)),
                 Max2(fuzzify(very_close, v), fuzzify(close, v)))
T4(d, v) == Min2(Max2(fuzzify(sparse, d), fuzzify(uniform, d)), fuzzify(halfway, v))
T5(d, v) == Min2(Max2(fuzzify(sparse, d), fuzzify(uniform, d)),
                 Max2(fuzzify(far, v), fuzzify(very_far, v)))
T6(d, v) == Min2(fuzzify(dense, d), Max2(fuzzify(very_close, v), fuzzify(close, v)))
T7(d, v) == IF fuzzify(very_close, v) = 0 /\ fuzzify(close, v) = 0
            THEN fuzzify(dense, d) ELSE 0
T8(d, v) == Max3(fuzzify(full, d), fuzzify(far, v), fuzzify(very_far, v))

StrictlyInside(x) == Dec(-25) < x /\ x < Dec(125)

(***************************************************************************)
(* Properties                                                              *)
(***************************************************************************)

\* C1: when all three firing strengths are 0 after the rules, scoring yields
\* the importance 0 and the point is not retained.
C1_ZeroStrengthsScoreZero ==
    (step >= 6 /\ AllZero) =>
        /\ ~IsNaN(defuzzified_importance)
        /\ defuzzified_importance.num = 0
        /\ (step = 7 => downsampled_point_cloud = <<>>)

C3_VertexDegrees ==
    (mf_call.op = "fuzzify" /\ raised = "none") =>
        /\ (mf_call.arg = tmf.a => mf_call.ret = <<0>>)
        /\ (mf_call.arg = tmf.b => mf_call.ret = <<tmf.slope.den>>)
        /\ (mf_call.arg = tmf.c => mf_call.ret = <<0>>)

\* C4: for every y in [0, 1], alpha_cut(y) returns (x_left, x_right) with
\* x_left <= b <= x_right.
C4_AlphaCutOrdered ==
    (mf_call.op = "alpha_cut" /\ raised = "none") =>
        /\ mf_call.ret[1] <= tmf.b
        /\ tmf.b <= mf_call.ret[2]

\* C5 as stated: for density 0.5 and distance 1.0 the else branch of rule 7
\* fires with dense(d) = 1.0, the superfluous strength becomes 1.0, the
\* importance is below the threshold and the point is dropped.
C5_Rule7Fires ==
    (x_density = Dec(50) /\ x_distance = Dec(100) /\ step >= 4) =>
        /\ Rule7Fires(x_density, x_distance)
        /\ fuzzify(dense, x_density) = One
        /\ superfluous_firing_strength = One
        /\ (step >= 6 => ~IsNaN(defuzzified_importance)
                         /\ ~Gt(defuzzified_importance, IMPORTANCE_THRESHOLD))
        /\ (step = 7 => downsampled_point_cloud = <<>>)

\* C5 amended: for density 0.5 and distance 1.0, dense(d) = 0 and the rule 6/7
\* block does nothing; rule 5 (uniform(d) = 1, very_far(v) = 1) sets the
\* superfluous strength to 1.0, the importance is 0.3, below the threshold,
\* and the point is dropped.
C5_Rule5Fires ==
    (x_density = Dec(50) /\ x_distance = Dec(100)) =>
        /\ fuzzify(dense, x_density) = 0
        /\ ~Rule7Fires(x_density, x_distance)
        /\ fuzzify(uniform, x_density) = One
        /\ fuzzify(very_far, x_distance) = One
        /\ (step <= 2 => superfluous_firing_strength = 0)
        /\ (step >= 3 => superfluous_firing_strength = One)
        /\ important_firing_strength = 0
        /\ essential_firing_strength = 0
        /\ (step >= 6 => /\ EqDec(defuzzified_importance, 30)
                         /\ ~Gt(defuzzified_importance, IMPORTANCE_THRESHOLD))
        /\ (step = 7 => downsampled_point_cloud = <<>>)

\* the point with density 0.5 and distance 1.0 has been scored and dropped
C5_Witness ==
    /\ x_density = Dec(50)
    /\ x_distance = Dec(100)
    /\ step = 7
    /\ superfluous_firing_strength = One
    /\ printed = <<"x is superfluous", "x is superfluous">>

\* C6: for density 0.0 and distance 0.0 the essential strength is 1.0 from
\* rule 1, the other two strengths are 0 after all rules, and the importance
\* is (0.60 + 0.60 + 0.75) / 3 = 0.65.
C6_EssentialPeak ==
    (x_density = Dec(0) /\ x_distance = Dec(0)) =>
        /\ (step >= 2 => essential_firing_strength = One)
        /\ (step >= 5 => /\ superfluous_firing_strength = 0
                         /\ important_firing_strength = 0)
        /\ (step >= 6 =>
               /\ ~IsNaN(defuzzified_importance)
               /\ defuzzified_importance.num * 3
                     = (Dec(60) + Dec(60) + Dec(75)) * defuzzified_importance.den
               /\ EqDec(defuzzified_importance, 65))

\* the point with density 0.0 and distance 0.0 has been scored
C6_Witness ==
    /\ x_density = Dec(0)
    /\ x_distance = Dec(0)
    /\ step = 7
    /\ printed = <<"x is essential">>
    /\ defuzzified_importance.den = 3 * One

\* C7: whatever the order of the four rule blocks, the final firing strengths
\* and the importance are those of the script's order.
C7_OrderInvariant ==
    LET ref == RunBlocks(ScriptOrder, ZeroStrengths, x_density, x_distance)
    IN  /\ (step >= 5 =>
               /\ superfluous_firing_strength = ref.superfluous_firing_strength
               /\ important_firing_strength = ref.important_firing_strength
               /\ essential_firing_strength = ref.essential_firing_strength)
        /\ (step >= 6 => defuzzified_importance = Defuzz(ref))

\* C8: after all rules, each firing strength is the maximum of the table
\* formulas of the rules concluding its label, and the superfluous strength is
\* never below the formula of rule 2.
C8_StrengthsAreTableMaxima ==
    step >= 5 =>
        /\ superfluous_firing_strength
              = Max2(Max2(T2(x_density, x_distance), T5(x_density, x_distance)),
                     Max2(T7(x_density, x_distance), T8(x_density, x_distance)))
        /\ important_firing_strength
              = Max2(T4(x_density, x_distance), T6(x_density, x_distance))
        /\ essential_firing_strength
              = Max2(T1(x_density, x_distance), T3(x_density, x_distance))
        /\ superfluous_firing_strength >= T2(x_density, x_distance)

\* all rules have run on a point for which the formulas of rule 1 and of
\* rule 2 are both positive, so that the elif skipped rule 2
C8_Witness ==
    /\ step >= 5
    /\ T1(x_density, x_distance) > 0
    /\ T2(x_density, x_distance) > 0
    /\ T2(x_density, x_distance) = superfluous_firing_strength
    /\ fuzzify(full, x_density) = 0

\* C9: a defined importance is at most 0.65, which it is when only the
\* essential strength is positive; it never exceeds IMPORTANCE_THRESHOLD and
\* no point is retained.
C9_ImportanceAtMost065 ==
    /\ (step >= 6 /\ ~IsNaN(defuzzified_importance)) =>
           /\ ~Gt(defuzzified_importance, Dec(65))
           /\ ~Gt(defuzzified_importance, IMPORTANCE_THRESHOLD)
    /\ (step >= 6 /\ essential_firing_strength > 0
          /\ superfluous_firing_strength = 0 /\ important_firing_strength = 0) =>
           EqDec(defuzzified_importance, 65)
    /\ (step = 7 => downsampled_point_cloud = <<>>)

\* a point with a partial essential strength alone has been scored at 0.65
C9_Witness ==
    /\ step = 7
    /\ essential_firing_strength > 0
    /\ essential_firing_strength < One
    /\ superfluous_firing_strength = 0
    /\ important_firing_strength = 0
    /\ EqDec(defuzzified_importance, 65)

\* C10: for density and distance strictly inside (-0.25, 1.25), some firing
\* strength is positive after the rules and the denominator of the
\* defuzzifier is nonzero; all strengths are zero only with the density or
\* the distance at or outside a bound of that interval.
C10_InsideFires ==
    /\ (step >= 5 /\ StrictlyInside(x_density) /\ StrictlyInside(x_distance)) =>
           ~AllZero
    /\ (step >= 6 /\ StrictlyInside(x_density) /\ StrictlyInside(x_distance)) =>
           defuzzified_importance.den # 0
    /\ (step >= 5 /\ AllZero) =>
           \/ x_density <= Dec(-25) \/ x_density >= Dec(125)
           \/ x_distance <= Dec(-25) \/ x_distance >= Dec(125)

\* a point at the dense peak and the halfway peak, which only the else branch
\* of rule 7 gives a strength, has been scored
C10_Witness ==
    /\ step >= 6
    /\ x_density = Dec(75)
    /\ x_distance = Dec(50)
    /\ superfluous_firing_strength = One
    /\ defuzzified_importance.den # 0

====
